---- MODULE Spec2Model ----
(***************************************************************************)
(* Keyword extraction and reconciliation of the ATS similarity service     *)
(* (src/python-service/main.py).  Texts and keywords are TLA+ strings;     *)
(* the regular expressions and str methods of the source are operators     *)
(* over the characters of those strings.                                   *)
(***************************************************************************)
EXTENDS Integers, Sequences, FiniteSets, TLC

(***************************************************************************)
(* Characters (ASCII part of Python's str / re character classes).         *)
(***************************************************************************)
LowerLetters == "abcdefghijklmnopqrstuvwxyz"

UpperLetters == "ABCDEFGHIJKLMNOPQRSTUVWXYZ"

Digits == "0123456789"

\* Code-point order of the characters the model uses (for str comparison).
CodeOrder == "\t\n #$%+,-./0123456789ABCDEFGHIJKLMNOPQRSTUVWXYZ_abcdefghijklmnopqrstuvwxyz"

Char(s, i) == SubSeq(s, i, i)

LowerSet ==
    { "a", "b", "c", "d", "e", "f", "g", "h", "i", "j", "k", "l", "m", "n",
      "o", "p", "q", "r", "s", "t", "u", "v", "w", "x", "y", "z" }

UpperSet ==
    { "A", "B", "C", "D", "E", "F", "G", "H", "I", "J", "K", "L", "M", "N",
      "O", "P", "Q", "R", "S", "T", "U", "V", "W", "X", "Y", "Z" }

DigitSet == { "0", "1", "2", "3", "4", "5", "6", "7", "8", "9" }

AlphaSet == LowerSet \cup UpperSet

\* \s of the re module
SpaceSet == { " ", "\t", "\n" }

\* \w of the re module
WordSet == AlphaSet \cup DigitSet \cup { "_" }

\* the lowercase letter of an uppercase letter
LowerOf(c) == Char(LowerLetters, CHOOSE i \in 1..Len(UpperLetters) : Char(UpperLetters, i) = c)

\* the rank of a character in code-point order
Ord(c) == CHOOSE i \in 1..Len(CodeOrder) : Char(CodeOrder, i) = c

(***************************************************************************)
(* str methods                                                             *)
(***************************************************************************)
\* str.lower()
RECURSIVE lower(_)
lower(s) ==
    IF s = "" THEN ""
    ELSE (IF Head(s) \in UpperSet THEN LowerOf(Head(s)) ELSE Head(s)) \o lower(Tail(s))

\* str.isupper(): at least one cased character and no lowercase one
isupper(s) ==
    /\ \E i \in 1..Len(s) : Char(s, i) \in UpperSet
    /\ \A i \in 1..Len(s) : Char(s, i) \notin LowerSet

\* str.isdigit()
isdigit(s) == s # "" /\ \A i \in 1..Len(s) : Char(s, i) \in DigitSet

\* str.startswith(p), str.endswith(p)
startswith(s, p) == Len(s) >= Len(p) /\ SubSeq(s, 1, Len(p)) = p

endswith(s, p) == Len(s) >= Len(p) /\ SubSeq(s, Len(s) - Len(p) + 1, Len(s)) = p

\* sub in s
Contains(s, sub) ==
    \E i \in 1..(Len(s) - Len(sub) + 1) : SubSeq(s, i, i + Len(sub) - 1) = sub

\* str.strip(): leading and trailing whitespace removed
RECURSIVE lstrip(_)
lstrip(s) == IF s # "" /\ Head(s) \in SpaceSet THEN lstrip(Tail(s)) ELSE s

RECURSIVE rstrip(_)
rstrip(s) ==
    IF s # "" /\ Char(s, Len(s)) \in SpaceSet THEN rstrip(SubSeq(s, 1, Len(s) - 1)) ELSE s

strip(s) == rstrip(lstrip(s))

\* str.replace(c, r) for a one-character c
RECURSIVE replace(_, _, _)
replace(s, c, r) ==
    IF s = "" THEN ""
    ELSE (IF Head(s) = c THEN r ELSE Head(s)) \o replace(Tail(s), c, r)

\* str.split(" ") without the empty pieces, as a sequence
RECURSIVE SplitFrom(_, _, _)
SplitFrom(s, i, cur) ==
    IF i > Len(s) THEN (IF cur = "" THEN << >> ELSE << cur >>)
    ELSE IF Char(s, i) \in SpaceSet
         THEN (IF cur = "" THEN << >> ELSE << cur >>) \o SplitFrom(s, i + 1, "")
         ELSE SplitFrom(s, i + 1, cur \o Char(s, i))

split(s) == SplitFrom(s, 1, "")

\* a < b for str (code-point order, a proper prefix first)
RECURSIVE StrLess(_, _)
StrLess(a, b) ==
    IF b = "" THEN FALSE
    ELSE IF a = "" THEN TRUE
    ELSE IF Head(a) = Head(b) THEN StrLess(Tail(a), Tail(b))
    ELSE Ord(Head(a)) < Ord(Head(b))

\* the element of a one-element set; The({ F(x) : x \in { e } }) is F(e) with e
\* evaluated once
The(S) == CHOOSE x \in S : TRUE

\* faulty variant of HasAlpha: the class [a-zA-Z0-9]
HasAlphaOrDigit(s) == \E i \in 1..Len(s) : Char(s, i) \in AlphaSet \cup DigitSet

\* re.search(r'[a-zA-Z]', s)
HasAlpha(s) == \E i \in 1..Len(s) : Char(s, i) \in AlphaSet

Range(seq) == { seq[i] : i \in 1..Len(seq) }

(***************************************************************************)
(* Config                                                                  *)
(***************************************************************************)
MAX_SHARED_KEYWORDS == 15

MAX_MISSING_KEYWORDS == 12

MIN_KEYWORD_LENGTH == 3

(***************************************************************************)
(* initialize_skill_sets: the three dictionaries                           *)
(***************************************************************************)
TechSkills ==
    { "java", "python", "javascript", "typescript", "c++", "c#", "go", "rust", "swift", "kotlin",
      "scala", "ruby", "php", "perl", "r", "matlab", "sql", "html", "css", "bash", "powershell",
      "react", "angular", "vue", "nodejs", "express", "django", "flask", "fastapi", "spring",
      "springboot", "hibernate", "laravel", "rails", "tensorflow", "pytorch", "keras",
      "scikit-learn", "pandas", "numpy", "matplotlib", "jquery", "bootstrap", "tailwind",
      "nextjs", "vuejs", "reactjs", "angularjs",
      "mysql", "postgresql", "mongodb", "redis", "elasticsearch", "cassandra", "dynamodb",
      "oracle", "sqlite", "mariadb", "neo4j", "influxdb", "couchdb", "firestore",
      "aws", "azure", "gcp", "docker", "kubernetes", "jenkins", "gitlab", "github",
      "terraform", "ansible", "chef", "puppet", "vagrant", "helm", "istio",
      "prometheus", "grafana", "circleci", "travis",
      "git", "svn", "jira", "confluence", "slack", "postman", "swagger", "api",
      "rest", "graphql", "soap", "json", "xml", "yaml", "nginx", "apache", "tomcat",
      "webpack", "vite", "babel", "eslint",
      "agile", "scrum", "kanban", "devops", "cicd", "tdd", "bdd", "microservices",
      "algorithms", "blockchain", "cybersecurity", "authentication", "authorization",
      "oauth", "jwt", "saml", "encryption" }

BusinessSkills ==
    { "leadership", "stakeholder", "debugging", "optimization",
      "performance", "scalability", "security", "compliance", "architecture" }

GenericWords ==
    { "ability", "additional", "add", "adding", "address", "addressing", "age",
      "application", "approach", "area", "base", "based", "build", "building",
      "business", "case", "company", "complete", "component", "content",
      "create", "creating", "current", "data", "day", "development", "different",
      "effort", "enable", "enabled", "enabling", "end", "ensure", "environment",
      "example", "experience", "following", "focus", "focused", "focusing",
      "functional", "general", "good", "great", "help", "high", "implement",
      "important", "include", "including", "information", "integration", "large",
      "law", "level", "line", "make", "making", "new", "number", "opportunity",
      "organization", "part", "place", "platform", "process", "product", "program",
      "project", "provide", "providing", "quality", "related", "required",
      "requirements", "responsible", "role", "service", "services", "set",
      "solution", "solutions", "strong", "support", "supporting", "system",
      "systems", "team", "teams", "technical", "technology", "time", "tool",
      "tools", "type", "understanding", "use", "using", "value", "various",
      "way", "well", "work", "working", "world", "year", "years",
      "looking", "seeking", "candidate", "position", "location", "salary",
      "benefits", "insurance", "health", "dental", "vision", "policy",
      "description", "responsibilities", "skills", "preferred", "minimum",
      "maximum", "overview", "summary", "duties", "tasks", "activities",
      "successful", "ideal", "excellent", "proven", "demonstrated", "knowledge",
      "proficiency", "deliver", "delivering", "drive", "driving", "lead",
      "leading", "develop", "developing", "maintain", "maintaining", "coordinate",
      "execute", "perform", "conduct", "establish", "identify", "evaluate",
      "define", "determine", "assess", "review", "monitor", "track", "report",
      "document", "participate", "contribute", "improve", "enhance", "streamline",
      "deploy", "operate", "administer", "facilitate", "organize", "prepare",
      "present", "train", "mentor", "guide", "assist", "manage", "managing" }

(***************************************************************************)
(* initialize_nltk: the stop words.  NltkStopWords is the English list of  *)
(* the NLTK stopwords corpus; FallbackStopWords the set of the except      *)
(* branch.                                                                 *)
(***************************************************************************)
NltkStopWords ==
    { "i", "me", "my", "myself", "we", "our", "ours", "ourselves", "you", "you're",
      "you've", "you'll", "you'd", "your", "yours", "yourself", "yourselves", "he", "him", "his",
      "himself", "she", "she's", "her", "hers", "herself", "it", "it's", "its", "itself",
      "they", "them", "their", "theirs", "themselves", "what", "which", "who", "whom", "this",
      "that", "that'll", "these", "those", "am", "is", "are", "was", "were", "be",
      "been", "being", "have", "has", "had", "having", "do", "does", "did", "doing",
      "a", "an", "the", "and", "but", "if", "or", "because", "as", "until",
      "while", "of", "at", "by", "for", "with", "about", "against", "between", "into",
      "through", "during", "before", "after", "above", "below", "to", "from", "up", "down",
      "in", "out", "on", "off", "over", "under", "again", "further", "then", "once",
      "here", "there", "when", "where", "why", "how", "all", "any", "both", "each",
      "few", "more", "most", "other", "some", "such", "no", "nor", "not", "only",
      "own", "same", "so", "than", "too", "very", "s", "t", "can", "will",
      "just", "don", "don't", "should", "should've", "now", "d", "ll", "m", "o",
      "re", "ve", "y", "ain", "aren", "aren't", "couldn", "couldn't", "didn", "didn't",
      "doesn", "doesn't", "hadn", "hadn't", "hasn", "hasn't", "haven", "haven't", "isn", "isn't",
      "ma", "mightn", "mightn't", "mustn", "mustn't", "needn", "needn't", "shan", "shan't", "shouldn",
      "shouldn't", "wasn", "wasn't", "weren", "weren't", "won", "won't", "wouldn", "wouldn't" }

FallbackStopWords ==
    { "the", "a", "an", "and", "or", "but", "in", "on", "at",
      "to", "for", "of", "with", "by", "from", "as", "is", "was",
      "are", "were", "be", "been", "being", "have", "has", "had",
      "this", "that", "these", "those", "it", "its", "they", "their",
      "will", "would", "should", "could", "can", "may", "might", "must" }

\* tech_phrases of extract_skills_and_keywords
tech_phrases ==
    { "machine learning", "artificial intelligence", "data science",
      "software engineering", "web development", "mobile development",
      "full stack", "front end", "back end", "database design",
      "system design", "network security", "cloud computing",
      "project management", "product management", "quality assurance",
      "user experience", "user interface", "business intelligence",
      "data analytics", "software architecture", "design patterns",
      "data structures", "computer science", "information technology" }

(***************************************************************************)
(* is_pure_number                                                          *)
(***************************************************************************)
\* ^\d+<one of cs>$
DigitsThenOne(word, cs) ==
    /\ Len(word) >= 2
    /\ isdigit(SubSeq(word, 1, Len(word) - 1))
    /\ Char(word, Len(word)) \in cs

is_pure_number(word) ==
    \/ isdigit(word)
    \* ^[\d,\.\$%]+$ (pure numbers with formatting)
    \/ word # "" /\ \A i \in 1..Len(word) : Char(word, i) \in DigitSet \cup { ",", ".", "$", "%" }
    \* ^\d+[kKmMbB]$ (salary abbreviations)
    \/ DigitsThenOne(word, { "k", "K", "m", "M", "b", "B" })
    \* ^\d+[-/]\d+$ (date ranges)
    \/ \E i \in 2..(Len(word) - 1) :
          /\ Char(word, i) \in { "-", "/" }
          /\ isdigit(SubSeq(word, 1, i - 1))
          /\ isdigit(SubSeq(word, i + 1, Len(word)))
    \* ^\d{4}$ (years)
    \/ Len(word) = 4 /\ isdigit(word)

(***************************************************************************)
(* has_technical_pattern (tech is state.tech_skills)                       *)
(***************************************************************************)
TechSuffixes == { "js", "sql", "db", "py", "rb", "go", "rs", "ts" }

\* ^([a-zA-Z]+)\d+$ : the letter part, or "" when the word does not match
LetterPart(word) ==
    LET cuts == { i \in 1..(Len(word) - 1) :
                    /\ \A j \in 1..i : Char(word, j) \in AlphaSet
                    /\ isdigit(SubSeq(word, i + 1, Len(word))) }
    IN IF cuts = {} THEN "" ELSE SubSeq(word, 1, CHOOSE i \in cuts : TRUE)

\* ^[IVXLCDM]+$
IsRomanNumeral(word) ==
    word # "" /\ \A i \in 1..Len(word) : Char(word, i) \in { "I", "V", "X", "L", "C", "D", "M" }

\* the acronym rule of has_technical_pattern
IsAcronym(word) == Len(word) >= 3 /\ isupper(word) /\ ~IsRomanNumeral(word)

has_technical_pattern(word, tech) ==
    IF Len(word) < 3 \/ ~HasAlpha(word) THEN FALSE
    ELSE \/ \E i \in 1..Len(word) : Char(word, i) \in { "+", "#" }
         \/ \E suf \in TechSuffixes : endswith(word, suf)
         \/ startswith(word, "api")
         \/ \E part \in { LetterPart(word) } : part # "" /\ part \in tech
         \/ IsAcronym(word)

(***************************************************************************)
(* extract_skills_and_keywords: normalization (lines 274-276)              *)
(***************************************************************************)
TechSymbols == { "+", "#", ".", "-" }

\* re.sub(r'[^\w\s+#.-]', ' ', text)
RECURSIVE SubNonTech(_)
SubNonTech(s) ==
    IF s = "" THEN ""
    ELSE (IF Head(s) \in WordSet \cup SpaceSet \cup TechSymbols THEN Head(s) ELSE " ")
         \o SubNonTech(Tail(s))

\* re.sub(r'\s+', ' ', text)
RECURSIVE CollapseSpaces(_, _)
CollapseSpaces(s, inRun) ==
    IF s = "" THEN ""
    ELSE IF Head(s) \in SpaceSet
         THEN (IF inRun THEN "" ELSE " ") \o CollapseSpaces(Tail(s), TRUE)
         ELSE Head(s) \o CollapseSpaces(Tail(s), FALSE)

Normalize(text) == strip(CollapseSpaces(SubNonTech(lower(text)), FALSE))

(***************************************************************************)
(* multi-word technical terms (lines 278-293)                              *)
(***************************************************************************)
\* faulty variant of MultiWordTerms: the phrase is added as written
MultiWordTermsAsWritten(text) == { p \in tech_phrases : Contains(text, p) }

\* lines 291-293
MultiWordTerms(text) ==
    { replace(phrase, " ", "_") : phrase \in { p \in tech_phrases : Contains(text, p) } }

(***************************************************************************)
(* Regex tokenization: re.findall(r'\b[a-zA-Z0-9+#.-]+\b', text)           *)
(***************************************************************************)
TokenClass == AlphaSet \cup DigitSet \cup TechSymbols

\* \b at the gap before character i (1..Len+1)
IsBoundary(s, i) ==
    LET before == i > 1 /\ Char(s, i - 1) \in WordSet
        after  == i <= Len(s) /\ Char(s, i) \in WordSet
    IN before # after

\* last index of the run of TokenClass characters that starts at i
RECURSIVE RunEnd(_, _)
RunEnd(s, i) ==
    IF i < Len(s) /\ Char(s, i + 1) \in TokenClass THEN RunEnd(s, i + 1) ELSE i

\* end of the greedy match that starts at i, 0 when none ends at a \b
LastOf(ends) == IF ends = {} THEN 0 ELSE CHOOSE e \in ends : \A f \in ends : f <= e

MatchEnd(s, i) ==
    The({ LastOf({ e \in i..last : IsBoundary(s, e + 1) }) : last \in { RunEnd(s, i) } })

RECURSIVE FindAllFrom(_, _)
FindAllFrom(s, i) ==
    IF i > Len(s) THEN << >>
    ELSE IF Char(s, i) \in TokenClass /\ IsBoundary(s, i)
         THEN The({ IF e = 0 THEN FindAllFrom(s, i + 1)
                    ELSE << SubSeq(s, i, e) >> \o FindAllFrom(s, e + 1) :
                    e \in { MatchEnd(s, i) } })
         ELSE FindAllFrom(s, i + 1)

findall(s) == FindAllFrom(s, 1)

(***************************************************************************)
(* nltk.word_tokenize on normalized text.  After normalization the text    *)
(* holds only \w characters, single spaces and + # . - ; of the Punkt and  *)
(* Treebank rules those that still apply are: a period that ends a chunk   *)
(* (before whitespace or at the end of the text) is split off, and '#' is  *)
(* a token of its own.                                                     *)
(***************************************************************************)
\* '#' padded with spaces: re.sub(r'[;@#$%&]', r' \g<0> ', chunk)
RECURSIVE PadHash(_)
PadHash(s) ==
    IF s = "" THEN ""
    ELSE (IF Head(s) = "#" THEN " # " ELSE Head(s)) \o PadHash(Tail(s))

\* the sentence-final period rule: ([^\.])(\.)\s*$
SplitFinalPeriod(chunk) ==
    IF Len(chunk) >= 2 /\ Char(chunk, Len(chunk)) = "." /\ Char(chunk, Len(chunk) - 1) # "."
    THEN SubSeq(chunk, 1, Len(chunk) - 1) \o " ."
    ELSE chunk

RECURSIVE TokenizeChunks(_)
TokenizeChunks(chunks) ==
    IF chunks = << >> THEN << >>
    ELSE split(PadHash(SplitFinalPeriod(Head(chunks)))) \o TokenizeChunks(Tail(chunks))

word_tokenize(text) == TokenizeChunks(split(text))

(***************************************************************************)
(* WordNetLemmatizer.lemmatize(word) (pos = noun): WordNet's morphy.  The  *)
(* candidate forms are the word and the word with a detachment rule        *)
(* applied; those that are WordNet nouns are kept and the shortest is the  *)
(* lemma; a word with no candidate in WordNet is returned unchanged.       *)
(***************************************************************************)
\* MORPHOLOGICAL_SUBSTITUTIONS[NOUN]
NounRules ==
    { << "s", "" >>, << "ses", "s" >>, << "ves", "f" >>, << "xes", "x" >>, << "zes", "z" >>,
      << "ches", "ch" >>, << "shes", "sh" >>, << "men", "man" >>, << "ies", "y" >> }

\* WordNet nouns among the forms the model's texts can produce
WordNetNouns ==
    { "python", "year", "ego", "apis", "machine", "learning", "experience", "building",
      "have", "rest", "skill", "security", "docker", "leadership" }

MorphyForms(word) ==
    { word } \cup
    { SubSeq(word, 1, Len(word) - Len(r[1])) \o r[2] : r \in { q \in NounRules : endswith(word, q[1]) } }

\* min(lemmas, key=len) if lemmas else word
ShortestOr(lemmas, word) ==
    IF lemmas = {} THEN word
    ELSE CHOOSE l \in lemmas : \A m \in lemmas : Len(l) <= Len(m)

lemmatize(word) ==
    The({ ShortestOr(lemmas, word) : lemmas \in { MorphyForms(word) \cap WordNetNouns } })

(***************************************************************************)
(* AppState and the startup functions                                      *)
(***************************************************************************)
\* Optional[...] values: None, or a value
None == << >>

Some(v) == << v >>

\* the class attributes of AppState (lines 33-40)
AppStateDefaults ==
    [ model           |-> FALSE,
      lemmatizer      |-> "None",
      stop_words      |-> None,
      tech_skills     |-> {},
      business_skills |-> {},
      generic_words   |-> {} ]

\* the NLTK resources the functions of this module load
NltkPackages == { "punkt", "stopwords", "wordnet" }

\* faulty variant of initialize_skill_sets: generic_words is not assigned
initialize_skill_sets_no_generic(st) ==
    [ st EXCEPT !.tech_skills = TechSkills, !.business_skills = BusinessSkills ]

\* lines 81-148
initialize_skill_sets(st) ==
    [ st EXCEPT !.tech_skills     = TechSkills,
                !.business_skills = BusinessSkills,
                !.generic_words   = GenericWords ]

\* data: the NLTK resources that can be loaded.  stopwords.words('english')
\* raises LookupError without its corpus, which selects the except branch.
initialize_nltk(st, data) ==
    IF "stopwords" \in data
    THEN [ st EXCEPT !.lemmatizer = "WordNetLemmatizer", !.stop_words = Some(NltkStopWords) ]
    ELSE [ st EXCEPT !.lemmatizer = "None", !.stop_words = Some(FallbackStopWords) ]

\* the AppState that lifespan leaves when the NLTK resources data can be
\* loaded and the embedding model is loaded
StartupState(data) ==
    [ initialize_nltk(initialize_skill_sets(AppStateDefaults), data) EXCEPT !.model = TRUE ]

(***************************************************************************)
(* extract_skills_and_keywords                                             *)
(***************************************************************************)
\* faulty variant of IsBlank: only "not text"
IsBlankNoStrip(text) == text = ""

\* line 270: not text or not text.strip()
IsBlank(text) == text = "" \/ strip(text) = ""

\* the three token tests of lines 301-303, 313-315 and 322-324
Candidates(words) ==
    { w \in words : Len(w) > MIN_KEYWORD_LENGTH /\ HasAlpha(w) /\ ~is_pure_number(w) }

\* "word not in state.stop_words" (lines 316, 325) is evaluated for the
\* words that pass the three tests, and raises TypeError on None
RegexStopFilter(cand, st) ==
    IF cand = {} THEN [ exc |-> FALSE, words |-> {} ]
    ELSE IF st.stop_words = None THEN [ exc |-> TRUE, words |-> {} ]
    ELSE [ exc |-> FALSE, words |-> cand \ st.stop_words[1] ]

\* lines 319-326: no lemmatizer
RegexTokens(text, st) ==
    The({ RegexStopFilter(cand, st) : cand \in { Candidates(Range(findall(lower(text)))) } })

\* faulty variant of FallbackTokens: "word not in state.stop_words" is missing
FallbackTokensNoStopWords(text, st) ==
    [ exc |-> FALSE, words |-> Candidates(Range(findall(lower(text)))) ]

\* lines 310-317: the except branch of the lemmatizer path
FallbackTokens(text, st) ==
    The({ RegexStopFilter(cand, st) : cand \in { Candidates(Range(findall(lower(text)))) } })

\* lines 304-306: lemmatize raises LookupError without wordnet (it is called
\* for the first token that passes the tests)
LemmatizeAll(cand, st, data) ==
    IF cand = {} THEN [ exc |-> FALSE, words |-> {} ]
    ELSE IF "wordnet" \notin data \/ st.stop_words = None THEN [ exc |-> TRUE, words |-> {} ]
    ELSE [ exc |-> FALSE, words |-> { lemmatize(lower(t)) : t \in cand } \ st.stop_words[1] ]

\* lines 298-306: word_tokenize raises LookupError without punkt
LemmaTokens(text, st, data) ==
    IF "punkt" \notin data THEN [ exc |-> TRUE, words |-> {} ]
    ELSE The({ LemmatizeAll(cand, st, data) :
               cand \in { Candidates(Range(word_tokenize(text))) } })

\* lines 296-326
Tokenize(text, st, data) ==
    IF st.lemmatizer # "None"
    THEN The({ IF primary.exc
               THEN [ path |-> "fallback" ] @@ FallbackTokens(text, st)
               ELSE [ path |-> "lemmatizer" ] @@ primary :
               primary \in { LemmaTokens(text, st, data) } })
    ELSE [ path |-> "regex" ] @@ RegexTokens(text, st)

\* line 333
CleanWord(word) == replace(replace(replace(replace(word, ".", ""), "-", ""), "+", ""), "#", "")

\* lines 331-337
DictionaryHits(single_words, st) ==
    { word \in single_words :
        \/ word \in st.tech_skills \/ word \in st.business_skills
        \/ \E clean \in { CleanWord(word) } :
              clean \in st.tech_skills \/ clean \in st.business_skills }

\* lines 339-345; relevant is relevant_keywords after the dictionary loop
PatternHits(single_words, relevant, st) ==
    { word \in single_words :
        /\ word \notin relevant
        /\ word \notin st.generic_words
        /\ word \notin st.stop_words[1]
        /\ has_technical_pattern(word, st.tech_skills) }

\* line 348
FinalFilter(relevant, st) == (relevant \ st.generic_words) \ st.stop_words[1]

\* lines 328-353, after tokenization (tok) succeeded or failed
CollectKeywords(text, multi, tok, hits, st) ==
    LET failed == [ exc |-> TRUE, ret |-> {}, path |-> tok.path, normalized |-> text,
                    multi_word_terms |-> multi, single_words |-> tok.words,
                    dictionary_hits |-> {},
                    steps |-> << "normalize", "phrases", "tokenize" >> ]
    IN IF tok.exc THEN failed
       ELSE IF st.stop_words = None
            \* TypeError: "word not in state.stop_words" (line 343) or the
            \* subtraction of line 348
            THEN [ failed EXCEPT !.steps = @ \o << "dictionary", "pattern" >> ]
       ELSE [ failed EXCEPT
                !.exc = FALSE,
                !.ret = FinalFilter(hits \cup PatternHits(tok.words, hits, st), st) \cup multi,
                !.dictionary_hits = hits,
                !.steps = @ \o << "dictionary", "pattern", "filter", "union" >> ]

\* lines 278-353, on the normalized text
ExtractNormalized(text, st, data) ==
    The({ The({ CollectKeywords(text, multi, tok, hits, st) :
                hits \in { DictionaryHits(tok.words, st) } }) :
          multi \in { MultiWordTerms(text) }, tok \in { Tokenize(text, st, data) } })

\* the try block, lines 274-353
ExtractBody(text0, st, data) ==
    The({ ExtractNormalized(text, st, data) : text \in { Normalize(text0) } })

\* faulty variant of OuterExcept: the exception is raised again
OuterExceptPropagates(body) ==
    [ raised |-> body.exc, caught |-> FALSE ] @@ body

\* lines 355-357: except Exception: log and return set()
OuterExcept(body) ==
    [ raised |-> FALSE, caught |-> body.exc ] @@ [ body EXCEPT !.ret = IF body.exc THEN {} ELSE @ ]

\* the try statement, lines 273-357
TryExtract(text, st, data) ==
    The({ OuterExcept(body) : body \in { ExtractBody(text, st, data) } })

\* the record of one call: its argument, its return value (ret), whether an
\* exception left the function (raised) or was caught by its outer handler
\* (caught), and the values of its local variables
extract_skills_and_keywords(text, st, data) ==
    [ text |-> text ] @@
    ( IF IsBlank(text)
      THEN [ raised |-> FALSE, caught |-> FALSE, exc |-> FALSE, ret |-> {}, path |-> "blank",
             normalized |-> "", multi_word_terms |-> {}, single_words |-> {},
             dictionary_hits |-> {}, steps |-> << >> ]
      ELSE TryExtract(text, st, data) )

\* faulty variant of ExtractEffect: the returned keywords become filler words
ExtractLearnsFiller(st, c) == [ st EXCEPT !.generic_words = @ \cup c.ret ]

\* faulty variant of ExtractEffect: the words of the text become skills
ExtractLearnsSkills(st, c) == [ st EXCEPT !.tech_skills = @ \cup c.single_words ]

\* the AppState after a call c of extract_skills_and_keywords on the state
\* st: the function, and has_technical_pattern which it calls, read
\* state.lemmatizer, state.stop_words and the three dictionaries and assign
\* no attribute of state
ExtractEffect(st, c) == st

(***************************************************************************)
(* is_technical_skill and the reconciliation of calculate_similarity       *)
(***************************************************************************)
tech_indicators ==
    { "java", "python", "javascript", "react", "aws", "docker",
      "kubernetes", "sql", "api", "framework", "database" }

is_technical_skill(keyword) ==
    \/ \E tech \in tech_indicators : Contains(lower(keyword), tech)
    \/ \E i \in 1..Len(keyword) : Char(keyword, i) \in DigitSet \cup { "+", "#" }
    \/ \E suf \in { "js", "sql", "db" } : endswith(keyword, suf)
    \/ (Len(keyword) >= 3 /\ isupper(keyword))

\* faulty variant of sort_key: the "not" is missing
sort_key_no_not(x) == << is_technical_skill(x), lower(x) >>

\* the sort key of lines 399-400
sort_key(x) == << ~is_technical_skill(x), lower(x) >>

\* tuple comparison of two keys (False < True)
KeyLess(ka, kb) ==
    \/ (~ka[1] /\ kb[1])
    \/ (ka[1] = kb[1] /\ StrLess(ka[2], kb[2]))

\* list(a_set): the iteration order of a set is arbitrary; order names one
\* of two opposite orders
RECURSIVE SetToSeq(_)
SetToSeq(S) ==
    IF S = {} THEN << >>
    ELSE LET x == CHOOSE y \in S : TRUE IN << x >> \o SetToSeq(S \ { x })

Reverse(seq) == [ i \in 1..Len(seq) |-> seq[Len(seq) + 1 - i] ]

list(S, order) == IF order = "forward" THEN SetToSeq(S) ELSE Reverse(SetToSeq(S))

\* list.sort(key=...): stable; the key of each element is computed once
RECURSIVE InsertByKey(_, _, _)
InsertByKey(sorted, e, i) ==
    IF i > Len(sorted) \/ KeyLess(e[1], sorted[i][1])
    THEN SubSeq(sorted, 1, i - 1) \o << e >> \o SubSeq(sorted, i, Len(sorted))
    ELSE InsertByKey(sorted, e, i + 1)

RECURSIVE SortKeyed(_, _)
SortKeyed(keyed, done) ==
    IF keyed = << >> THEN done
    ELSE SortKeyed(Tail(keyed), InsertByKey(done, Head(keyed), 1))

Undecorate(sorted) == [ i \in 1..Len(sorted) |-> sorted[i][2] ]

sort(lst) ==
    The({ Undecorate(sorted) :
          sorted \in { SortKeyed([ i \in 1..Len(lst) |-> << sort_key(lst[i]), lst[i] >> ], << >>) } })

\* faulty variant of Take: lst[-n:]
TakeLast(lst, n) == IF Len(lst) <= n THEN lst ELSE SubSeq(lst, Len(lst) - n + 1, Len(lst))

\* lst[:n]
Take(lst, n) == IF Len(lst) <= n THEN lst ELSE SubSeq(lst, 1, n)

\* faulty variant of SharedSet: the job keywords, not the intersection
SharedSetWrong(resume_keywords, job_keywords) == job_keywords

\* line 395
SharedSet(resume_keywords, job_keywords) == resume_keywords \cap job_keywords

\* faulty variant of MissingSet: the operands exchanged
MissingSetWrong(resume_keywords, job_keywords) == resume_keywords \ job_keywords

\* line 396
MissingSet(resume_keywords, job_keywords) == job_keywords \ resume_keywords

\* lines 395-404
\* lines 403-404
Limit(resume_keywords, job_keywords, shared, missing) ==
    [ resume_keywords  |-> resume_keywords,
      job_keywords     |-> job_keywords,
      shared           |-> shared,
      missing          |-> missing,
      shared_keywords  |-> Take(shared, MAX_SHARED_KEYWORDS),
      missing_keywords |-> Take(missing, MAX_MISSING_KEYWORDS) ]

\* lines 395-404
Reconcile(resume_keywords, job_keywords, order) ==
    The({ Limit(resume_keywords, job_keywords, shared, missing) :
          shared  \in { sort(list(SharedSet(resume_keywords, job_keywords), order)) },
          missing \in { sort(list(MissingSet(resume_keywords, job_keywords), order)) } })

\* round(num / den * 100, 2) in hundredths of a percent: the nearest
\* integer to num * 10000 / den, a tie going to the even one
RoundPercent(num, den) ==
    The({ IF 2 * ((num * 10000) % den) > den THEN q + 1
          ELSE IF 2 * ((num * 10000) % den) < den THEN q
          ELSE IF q % 2 = 0 THEN q ELSE q + 1 :
          q \in { (num * 10000) \div den } })

\* faulty variant of match_percentage: the division without "if job_keywords"
match_percentage_unguarded(shared, job_keywords) ==
    IF job_keywords = {} THEN [ exc |-> TRUE, value |-> 0 ]
    ELSE [ exc |-> FALSE, value |-> RoundPercent(Len(shared), Cardinality(job_keywords)) ]

\* line 415; exc: ZeroDivisionError
match_percentage(shared, job_keywords) ==
    IF job_keywords # {}
    THEN [ exc |-> FALSE, value |-> RoundPercent(Len(shared), Cardinality(job_keywords)) ]
    ELSE [ exc |-> FALSE, value |-> 0 ]

\* lines 406-423 on the locals kw of lines 391-404: the response is built
\* with its metadata; an exception is answered with status 500
Respond(kw) ==
    The({ IF mp.exc THEN [ status |-> 500, match_percentage |-> 0 ] @@ kw
          ELSE [ status |-> 200, match_percentage |-> mp.value ] @@ kw :
          mp \in { match_percentage(kw.shared, kw.job_keywords) } })

\* faulty variant of SimilarityEffect: the handler keeps the keywords of
\* the resume in the shared stop words
SimilarityCachesKeywords(st, r) ==
    [ st EXCEPT !.stop_words = IF @ = None THEN @ ELSE Some(@[1] \cup r.resume_keywords) ]

\* the AppState after the handler of /similarity has answered r: the
\* handler and is_technical_skill assign no attribute of state
SimilarityEffect(st, r) == st

(***************************************************************************)
(* json.loads, for texts of objects, arrays, strings, unsigned integers    *)
(* and the literals true, false and null.  A parsed value is kept as its   *)
(* type with what the "in" operator reads of it: the keys of an object,    *)
(* the string elements of an array, the text of a string.                  *)
(***************************************************************************)
JsonWhitespace == { " ", "\t", "\n", "\r" }

JsonFail == [ ok |-> FALSE, next |-> 0, val |-> [ type |-> "none", keys |-> {}, str |-> "" ] ]

JsonValue(type, keys, str, next) ==
    [ ok |-> TRUE, next |-> next, val |-> [ type |-> type, keys |-> keys, str |-> str ] ]

RECURSIVE SkipWhitespace(_, _)
SkipWhitespace(s, i) ==
    IF i <= Len(s) /\ Char(s, i) \in JsonWhitespace THEN SkipWhitespace(s, i + 1) ELSE i

\* the index after the closing quote of the string literal whose text
\* begins at j, or 0 when the literal is not terminated
RECURSIVE StringEnd(_, _)
StringEnd(s, j) ==
    IF j > Len(s) THEN 0
    ELSE IF Char(s, j) = "\"" THEN j + 1
    ELSE IF Char(s, j) = "\\" THEN (IF j + 1 > Len(s) THEN 0 ELSE StringEnd(s, j + 2))
    ELSE StringEnd(s, j + 1)

RECURSIVE NumberEnd(_, _)
NumberEnd(s, j) == IF j <= Len(s) /\ Char(s, j) \in DigitSet THEN NumberEnd(s, j + 1) ELSE j

\* the text at index i goes on with the word w
At(s, i, w) == i + Len(w) - 1 <= Len(s) /\ SubSeq(s, i, i + Len(w) - 1) = w

RECURSIVE ParseValue(_, _)
RECURSIVE ParseMembers(_, _, _)
RECURSIVE ParseElements(_, _, _)
RECURSIVE ParseMore(_, _, _, _, _)
RECURSIVE MemberValue(_, _, _, _)

\* after a member or an element that ended before index d: a comma, the
\* closing bracket, or an error
ParseMore(s, d, keys, close, type) ==
    IF d > Len(s) THEN JsonFail
    ELSE IF Char(s, d) = close THEN JsonValue(type, keys, "", d + 1)
    ELSE IF Char(s, d) # "," THEN JsonFail
    ELSE IF type = "dict" THEN ParseMembers(s, SkipWhitespace(s, d + 1), keys)
    ELSE ParseElements(s, SkipWhitespace(s, d + 1), keys)

\* the colon at index c and the value of the member key
MemberValue(s, key, c, keys) ==
    IF c > Len(s) \/ Char(s, c) # ":" THEN JsonFail
    ELSE The({ IF ~v.ok THEN JsonFail
               ELSE ParseMore(s, SkipWhitespace(s, v.next), keys \cup { key }, "}", "dict") :
               v \in { ParseValue(s, SkipWhitespace(s, c + 1)) } })

\* the members of an object from index i, where a key is expected
ParseMembers(s, i, keys) ==
    IF i > Len(s) \/ Char(s, i) # "\"" THEN JsonFail
    ELSE The({ IF e = 0 THEN JsonFail
               ELSE MemberValue(s, SubSeq(s, i + 1, e - 2), SkipWhitespace(s, e), keys) :
               e \in { StringEnd(s, i + 1) } })

\* the elements of an array from index i, where a value is expected
ParseElements(s, i, keys) ==
    The({ IF ~v.ok THEN JsonFail
          ELSE ParseMore(s, SkipWhitespace(s, v.next),
                         IF v.val.type = "str" THEN keys \cup { v.val.str } ELSE keys,
                         "]", "list") :
          v \in { ParseValue(s, i) } })

ParseValue(s, i) ==
    IF i > Len(s) THEN JsonFail
    ELSE IF Char(s, i) = "{"
    THEN The({ IF j <= Len(s) /\ Char(s, j) = "}" THEN JsonValue("dict", {}, "", j + 1)
               ELSE ParseMembers(s, j, {}) :
               j \in { SkipWhitespace(s, i + 1) } })
    ELSE IF Char(s, i) = "["
    THEN The({ IF j <= Len(s) /\ Char(s, j) = "]" THEN JsonValue("list", {}, "", j + 1)
               ELSE ParseElements(s, j, {}) :
               j \in { SkipWhitespace(s, i + 1) } })
    ELSE IF Char(s, i) = "\""
    THEN The({ IF e = 0 THEN JsonFail ELSE JsonValue("str", {}, SubSeq(s, i + 1, e - 2), e) :
               e \in { StringEnd(s, i + 1) } })
    ELSE IF Char(s, i) \in DigitSet THEN JsonValue("int", {}, "", NumberEnd(s, i))
    ELSE IF At(s, i, "null") THEN JsonValue("null", {}, "", i + 4)
    ELSE IF At(s, i, "true") THEN JsonValue("bool", {}, "", i + 4)
    ELSE IF At(s, i, "false") THEN JsonValue("bool", {}, "", i + 5)
    ELSE JsonFail

\* json.loads(s); ok = FALSE: JSONDecodeError (also for text after the value)
json_loads(s) ==
    The({ IF v.ok /\ SkipWhitespace(s, v.next) = Len(s) + 1 THEN v ELSE JsonFail :
          v \in { ParseValue(s, SkipWhitespace(s, 1)) } })

\* str.find(c) and str.rfind(c): a 0-based index, or -1
RECURSIVE FindFrom(_, _, _)
FindFrom(s, c, i) ==
    IF i > Len(s) THEN -1 ELSE IF Char(s, i) = c THEN i - 1 ELSE FindFrom(s, c, i + 1)

find(s, c) == FindFrom(s, c, 1)

RECURSIVE RFindFrom(_, _, _)
RFindFrom(s, c, i) ==
    IF i < 1 THEN -1 ELSE IF Char(s, i) = c THEN i - 1 ELSE RFindFrom(s, c, i - 1)

rfind(s, c) == RFindFrom(s, c, Len(s))

\* s[start:end] for 0 <= start < end <= len(s)
Slice(s, start, end) == SubSeq(s, start + 1, end)

(***************************************************************************)
(* AdviceService                                                           *)
(***************************************************************************)
required_fields ==
    { "skills_to_add", "skills_to_emphasize", "resume_structure",
      "content_optimization", "keyword_strategy", "overall_priority" }

\* _fallback_advice: the dict with the six fields; of its values the two
\* lists that depend on the arguments are kept
fallback_advice(missing_keywords, shared_keywords) ==
    [ type |-> "dict", keys |-> required_fields, str |-> "",
      skills_to_add |-> IF missing_keywords # << >> THEN Take(missing_keywords, 5)
                        ELSE << "Review job requirements carefully" >>,
      skills_to_emphasize |-> IF shared_keywords # << >> THEN Take(shared_keywords, 5)
                              ELSE << "Highlight your relevant experience" >> ]

\* a value that json.loads returned, as the value generate_advice returns
Parsed(val) == val @@ [ skills_to_add |-> << >>, skills_to_emphasize |-> << >> ]

\* "field in advice_data": a key of a dict, an element of a list, a
\* substring of a str; TypeError (exc) for a number, a bool and None
FieldsIn(val) ==
    IF val.type \in { "dict", "list" }
    THEN [ exc |-> FALSE, all |-> required_fields \subseteq val.keys ]
    ELSE IF val.type = "str"
    THEN [ exc |-> FALSE, all |-> \A field \in required_fields : Contains(val.str, field) ]
    ELSE [ exc |-> TRUE, all |-> FALSE ]

\* lines 137-149: the value parsed from the whole response
Validated(val, missing_keywords, shared_keywords) ==
    The({ IF f.exc
          THEN [ path |-> "llm_failed",
                 value |-> fallback_advice(missing_keywords, shared_keywords) ]
          ELSE IF f.all THEN [ path |-> "direct", value |-> Parsed(val) ]
          ELSE [ path |-> "missing_fields",
                 value |-> fallback_advice(missing_keywords, shared_keywords) ] :
          f \in { FieldsIn(val) } })

\* lines 151-167: after a JSONDecodeError, the text from the first "{" to
\* the last "}" is parsed and returned
CutOut(advice_text, missing_keywords, shared_keywords) ==
    The({ IF start >= 0 /\ end > start /\ json_loads(Slice(advice_text, start, end)).ok
          THEN [ path |-> "cut_out",
                 value |-> Parsed(json_loads(Slice(advice_text, start, end)).val) ]
          ELSE [ path |-> "unparsable",
                 value |-> fallback_advice(missing_keywords, shared_keywords) ] :
          start \in { find(advice_text, "{") }, end \in { rfind(advice_text, "}") + 1 } })

\* lines 128-167
ParseAdvice(advice_text, missing_keywords, shared_keywords) ==
    The({ IF parsed.ok THEN Validated(parsed.val, missing_keywords, shared_keywords)
          ELSE CutOut(advice_text, missing_keywords, shared_keywords) :
          parsed \in { json_loads(advice_text) } })

\* generate_advice (lines 98-172).  client: self.client is set; llm: what
\* self.client.generate does, raising or answering with a response text
generate_advice(client, missing_keywords, shared_keywords, llm) ==
    [ raised |-> FALSE, missing_keywords |-> missing_keywords,
      shared_keywords |-> shared_keywords, llm |-> llm ] @@
    ( IF ~client
      THEN [ path |-> "no_client", value |-> fallback_advice(missing_keywords, shared_keywords) ]
      ELSE IF llm.raises
      THEN [ path |-> "llm_failed", value |-> fallback_advice(missing_keywords, shared_keywords) ]
      ELSE ParseAdvice(strip(llm.response), missing_keywords, shared_keywords) )

(***************************************************************************)
(* Interview service (interview-service/main.py).  A value of a message    *)
(* that the client sends is kept as its type with its text (str), its      *)
(* number (int: Num) or its length (list); Null is None.                        *)
(***************************************************************************)
Str(s) == [ t |-> "str", s |-> s, n |-> 0 ]

Num(n) == [ t |-> "int", s |-> "", n |-> n ]

Array(n) == [ t |-> "list", s |-> "", n |-> n ]

Null == [ t |-> "None", s |-> "", n |-> 0 ]

\* bool(v), as "if v", "not v", "v or w" and "v and w" take it
Truthy(v) ==
    CASE v.t = "str" -> v.s # ""
      [] v.t = "int" -> v.n # 0
      [] v.t = "list" -> v.n # 0
      [] OTHER -> FALSE

\* data.get(key, default) of a dict
get(data, key, default) == IF key \in DOMAIN data THEN data[key] ELSE default

\* v or w
Or(v, w) == IF Truthy(v) THEN v ELSE w

\* lines 32-63
BEHAVIORAL_QUESTIONS ==
    [ leadership |->
        << "Tell me about a time when you had to lead a team through a difficult project.",
           "Describe a situation where you had to motivate a struggling team member.",
           "Give me an example of when you took initiative without being asked." >>,
      problem_solving |->
        << "Describe a complex problem you solved at work. Walk me through your approach.",
           "Tell me about a time when you had to make a decision with incomplete information.",
           "Give an example of when you identified a problem before it became urgent." >>,
      teamwork |->
        << "Tell me about a time you had a conflict with a coworker. How did you handle it?",
           "Describe a situation where you had to work with someone difficult.",
           "Give an example of a successful team project and your contribution to it." >>,
      adaptability |->
        << "Tell me about a time when you had to adapt to a major change at work.",
           "Describe a situation where you failed. What did you learn from it?",
           "Give an example of when you had to learn something new quickly." >>,
      communication |->
        << "Tell me about a time you had to explain something complex to a non-technical person.",
           "Describe a situation where miscommunication caused a problem. How did you fix it?",
           "Give an example of when you had to deliver difficult feedback." >>,
      pressure |->
        << "Tell me about a time you worked under a tight deadline.",
           "Describe a high-pressure situation and how you managed it.",
           "Give an example of when you had to handle multiple priorities at once." >> ]

\* "category and category in BEHAVIORAL_QUESTIONS" (line 93); a list that
\* is not empty cannot be hashed, and the test raises TypeError (exc)
KnownCategory(category) ==
    [ exc |-> Truthy(category) /\ category.t = "list",
      known |-> category.t = "str" /\ category.s \in DOMAIN BEHAVIORAL_QUESTIONS ]

\* get_random_question (lines 91-99): the dicts that the two calls of
\* random.choice can give
get_random_question(category) ==
    UNION { { [ category |-> c, question |-> BEHAVIORAL_QUESTIONS[c][i] ] :
                i \in 1..Len(BEHAVIORAL_QUESTIONS[c]) } :
            c \in IF KnownCategory(category).known THEN { category.s }
                  ELSE DOMAIN BEHAVIORAL_QUESTIONS }

\* the messages that the server sends
QuestionMessage(q) ==
    [ type |-> "question", category |-> q.category, question |-> q.question ]

ErrorMessage(message) == [ type |-> "error", message |-> message ]

EvaluatingMessage == [ type |-> "evaluating", message |-> "Analyzing your response..." ]

\* lines 153-162: the last 50 characters of the response so far
ProgressMessage(full_response) ==
    [ type |-> "evaluation_progress",
      partial |-> IF Len(full_response) > 50
                  THEN SubSeq(full_response, Len(full_response) - 49, Len(full_response))
                  ELSE full_response ]

CompleteMessage(evaluation) == [ type |-> "evaluation_complete", data |-> evaluation ]

FollowupMessage(question) == [ type |-> "followup", question |-> question ]

PongMessage == [ type |-> "pong" ]

EvaluationFields ==
    { "star_analysis", "score", "strengths", "improvements", "improved_answer_snippet" }

\* _fallback_evaluation (lines 190-224): the dict, with the values that
\* depend on the answer
fallback_evaluation(answer) ==
    The({ [ type |-> "dict", keys |-> EvaluationFields, str |-> "",
            situation |-> word_count > 50, task |-> word_count > 50,
            result |-> word_count > 100,
            score |-> 5 + (IF word_count \div 30 <= 3 THEN word_count \div 30 ELSE 3) ] :
          word_count \in { Len(split(answer)) } })

\* a value that json.loads returned, as the data of evaluation_complete
Evaluation(val) ==
    val @@ [ situation |-> FALSE, task |-> FALSE, result |-> FALSE, score |-> 0 ]

\* lines 167-170: the text from the first "{" to the last "}"
JsonIn(full_response) ==
    The({ IF start >= 0 /\ end > start
          THEN [ found |-> TRUE, json_str |-> Slice(full_response, start, end) ]
          ELSE [ found |-> FALSE, json_str |-> "" ] :
          start \in { find(full_response, "{") }, end \in { rfind(full_response, "}") + 1 } })

\* faulty variant of ParseEvaluation: the fallback evaluation is sent after
\* the try statement, not in its except clause
ParseEvaluationNoExcept(full_response, answer) ==
    The({ (IF parsed.ok THEN << CompleteMessage(Evaluation(parsed.val)) >> ELSE << >>)
              \o << CompleteMessage(fallback_evaluation(answer)) >> :
          parsed \in { The({ IF in.found THEN json_loads(in.json_str) ELSE JsonFail :
                             in \in { JsonIn(full_response) } }) } })

\* lines 165-184, after the stream has ended: the messages sent.  The
\* evaluation that json.loads gives, or the fallback evaluation when there
\* is no JSON text (ValueError) or json.loads raises JSONDecodeError
ParseEvaluation(full_response, answer) ==
    The({ IF parsed.ok THEN << CompleteMessage(Evaluation(parsed.val)) >>
          ELSE << CompleteMessage(fallback_evaluation(answer)) >> :
          parsed \in { The({ IF in.found THEN json_loads(in.json_str) ELSE JsonFail :
                             in \in { JsonIn(full_response) } }) } })

\* s.strip('"')
RECURSIVE StripQuotes(_)
StripQuotes(s) ==
    IF s # "" /\ Char(s, 1) = "\"" THEN StripQuotes(SubSeq(s, 2, Len(s)))
    ELSE IF s # "" /\ Char(s, Len(s)) = "\"" THEN StripQuotes(SubSeq(s, 1, Len(s) - 1))
    ELSE s

\* faulty variant of generate_followup_stream: the except clause sends an
\* error message
generate_followup_stream_error(client, llm) ==
    IF ~client
    THEN << FollowupMessage("Can you tell me more about the specific results you achieved?") >>
    ELSE IF llm.raises
    THEN << ErrorMessage(llm.error) >>
    ELSE << FollowupMessage(StripQuotes(strip(llm.response))) >>

\* generate_followup_stream (lines 226-267): the messages sent.  client:
\* self.client is set; llm: what self.client.generate does, raising or
\* answering with a response text
generate_followup_stream(client, llm) ==
    IF ~client
    THEN << FollowupMessage("Can you tell me more about the specific results you achieved?") >>
    ELSE IF llm.raises
    THEN << FollowupMessage("Can you elaborate on the specific impact of your actions?") >>
    ELSE << FollowupMessage(StripQuotes(strip(llm.response))) >>

(***************************************************************************)
(* Bounds and inputs                                                       *)
(***************************************************************************)
\* texts are built from at most MaxWords words of Vocabulary
MaxWords == 2

\* keyword sets given to the reconciliation hold at most MaxKeywords
\* keywords of KeywordUniverse
MaxKeywords == 18

Vocabulary ==
    { "Python", "AWS", "APIs", "years", "egos", "2023", "40k", "$500", "3-5",
      "machine", "learning", "C#", "node.js", "5000+", "have", "Security." }

RECURSIVE JoinWords(_)
JoinWords(ws) ==
    IF Len(ws) = 0 THEN ""
    ELSE IF Len(ws) = 1 THEN ws[1]
    ELSE ws[1] \o " " \o JoinWords(Tail(ws))

WordTexts == { JoinWords(ws) : ws \in UNION { [ 1..n -> Vocabulary ] : n \in 1..MaxWords } }

ExampleText == "I have 5 years of Python and AWS experience building REST APIs"

NumericText == "2023 40k $500 3-5"

BlankTexts == { "", " ", "   ", "\t\n", "          " }

OtherTexts ==
    { "Machine  Learning,\tdata science & machine learning", "foo_bar C++/python3 XIV",
      "Leadership skills: Docker, Kubernetes, SQL.", "Worked at NASA", "Sincerely yours",
      "data_science and design_patterns" }

Texts == WordTexts \cup BlankTexts \cup OtherTexts \cup { ExampleText, NumericText }

\* request bodies of /similarity: Field(..., min_length=10)
RequestTexts ==
    { t \in BlankTexts \cup { ExampleText, NumericText, "Python AWS", "Python egos 5000+",
                              "Leadership skills: Docker, Kubernetes, SQL." } :
        Len(t) >= 10 }

KeywordUniverse ==
    << "python", "leadership", "docker", "AWS", "communication", "sql", "Zebra", "apple",
       "node.js", "c++", "aws", "teamwork", "react", "kubernetes", "mentoring", "API",
       "java_script", "agile", "scrum", "rest", "nginx", "excel" >>

UniverseSize == IF MaxKeywords <= Len(KeywordUniverse) THEN MaxKeywords ELSE Len(KeywordUniverse)

Window(i, j) == { KeywordUniverse[k] : k \in i..j }

ExampleResume == { "python", "sql", "communication" }

ExampleJob == { "python", "docker", "sql", "leadership" }

ResumeSets == { Window(1, j) : j \in 0..UniverseSize } \cup { ExampleResume }

JobSets == { Window(i, j) : i \in 1..UniverseSize, j \in 0..UniverseSize } \cup { ExampleJob }

IterationOrders == { "forward", "reverse" }

\* texts of the calls that are repeated
RepeatTexts ==
    { ExampleText, "Python AWS", "egos", "Leadership skills: Docker, Kubernetes, SQL.",
      "machine learning", "years" }

\* calls counted after a remembered call
MaxSince == 2

\* /similarity requests in flight at a time
MaxRequests == 2

\* entries added to the dictionaries, the filler words and the stop words
ExtraSkills == { "years" }

ExtraFiller == { "python", "leadership" }

ExtraStopWords == { "docker" }

\* the keyword lists of an advice request
AdviceKeywords ==
    { << >>, << "docker" >>, << "docker", "sql", "aws", "react", "java", "golang" >> }

AllFieldsObject ==
    "{\"skills_to_add\": [\"docker\"], \"skills_to_emphasize\": [], "
    \o "\"resume_structure\": [], \"content_optimization\": [], "
    \o "\"keyword_strategy\": \"\", \"overall_priority\": []}"

AllFieldsArray ==
    "[\"skills_to_add\", \"skills_to_emphasize\", \"resume_structure\", "
    \o "\"content_optimization\", \"keyword_strategy\", \"overall_priority\"]"

\* the response texts of the language model
ResponseTexts ==
    { AllFieldsObject,
      "  " \o AllFieldsObject \o "\n",
      "Here is the advice: " \o AllFieldsObject \o " Good luck!",
      "{\"skills_to_add\": [\"docker\"]}",
      "Sure! {\"skills_to_add\": [\"docker\"]}",
      "{\"skills_to_add\": [\"docker\"",
      "{\"advice\": 1} and {\"more\": 2}",
      "I cannot help with that.",
      AllFieldsArray,
      "5",
      "null",
      "" }

\* what self.client.generate does
LlmOutcomes ==
    { [ raises |-> TRUE, response |-> "" ] }
        \cup { [ raises |-> FALSE, response |-> t ] : t \in ResponseTexts }

\* request bodies of the requests in flight
ConcurrentBodies ==
    { [ resume_text |-> "Python AWS ", job_description |-> "Python egos 5000+" ],
      [ resume_text |-> "Python egos 5000+", job_description |-> " Python AWS" ] }

\* a connection to /ws/interview receives at most MaxMessages messages
MaxMessages == 3

\* an answer of 15 words
LongAnswer ==
    "We had a bug so I ran a test and cut it in a day"

\* the values of "answer", "question" and "category" in the messages of a client
AnswerValues ==
    { Str(""), Str("  \n"), Str("I led the team."), Str(LongAnswer), Null, Num(5), Num(0) }

QuestionValues == { Str("Why do you want this job?"), Str("") }

CategoryValues == { Str("leadership"), Str("sports"), Null, Array(1) }

\* the dicts with the given type, with and without an answer and a question
WithAnswer(type) ==
    { [ type |-> Str(type) ] }
        \cup { [ type |-> Str(type), answer |-> a ] : a \in AnswerValues }
        \cup { [ type |-> Str(type), question |-> q ] : q \in QuestionValues }
        \cup { [ type |-> Str(type), answer |-> a, question |-> q ] :
                 a \in AnswerValues, q \in QuestionValues }

\* what receive_json returns: a dict (items: its entries), or a JSON value
\* that is no dict; "invalid" is a text that is no JSON, for which
\* receive_json raises
Messages ==
    { [ kind |-> "dict", items |-> m ] :
        m \in { [ type |-> Str("get_question") ] }
              \cup { [ type |-> Str("get_question"), category |-> c ] : c \in CategoryValues }
              \cup WithAnswer("submit_answer") \cup WithAnswer("get_followup")
              \cup { [ type |-> Str("ping") ], [ type |-> Str("hello") ], [ type |-> Num(1) ],
                     [ answer |-> Str("I led the team.") ] } }
        \cup { [ kind |-> k, items |-> << >> ] : k \in { "dict", "list", "invalid" } }

\* what self.client.generate(stream=True) does: the chunks that it yields,
\* with or without a "response", and whether it then raises (error: the
\* text of the exception) or ends.  No chunks and raises: the call raised.
StreamOutcomes ==
    { [ chunks |-> << >>, raises |-> TRUE, error |-> "model not found" ],
      [ chunks |-> << >>, raises |-> FALSE, error |-> "" ],
      [ chunks |-> << [ response |-> "{\"score\": 7, \"strengths\": []}" ], [ done |-> TRUE ] >>,
        raises |-> FALSE, error |-> "" ],
      [ chunks |-> << [ response |-> "{\"sco" ], [ response |-> "re\": 7}" ] >>,
        raises |-> FALSE, error |-> "" ],
      [ chunks |-> << [ response |-> "Here is my evaluation: {\"score\": 7} I hope it helps you improve." ] >>,
        raises |-> FALSE, error |-> "" ],
      [ chunks |-> << [ response |-> "No JSON here" ] >>, raises |-> FALSE, error |-> "" ],
      [ chunks |-> << [ response |-> "{bad}" ] >>, raises |-> FALSE, error |-> "" ],
      [ chunks |-> << [ response |-> "} {" ] >>, raises |-> FALSE, error |-> "" ],
      [ chunks |-> << [ response |-> "{\"sc" ] >>, raises |-> TRUE, error |-> "connection lost" ] }

\* what self.client.generate does for a follow-up question
FollowupOutcomes ==
    { [ raises |-> TRUE, response |-> "", error |-> "model not found" ],
      [ raises |-> FALSE, response |-> " \"What was the result?\"\n", error |-> "" ],
      [ raises |-> FALSE, response |-> "How did the team react?", error |-> "" ],
      [ raises |-> FALSE, response |-> "", error |-> "" ] }


(***************************************************************************)
(* State                                                                   *)
(***************************************************************************)
VARIABLES
    state,      \* the AppState instance
    nltk_data,  \* the NLTK resources that can be loaded in this deployment
    phase,      \* "import" (module imported), "serving" (lifespan started), "failed"
    call,       \* the last call of extract_skills_and_keywords
    resp,       \* the last /similarity request: its locals and its response
    earlier,    \* a call made after startup that an observer remembers, and
                \* the number of calls made since
    requests,   \* the /similarity requests in flight: the position and the
                \* locals of each handler
    advice,     \* state.advice_service (service: it is set; client: its
                \* client is set) and the last call of generate_advice
    interview_service,  \* the InterviewService instance of the interview service
    websocket   \* a connection to /ws/interview: the position and the locals
                \* of its handler, and the messages sent since the last receive

vars ==
    << state, nltk_data, phase, call, resp, earlier, requests, advice,
       interview_service, websocket >>

NoCall ==
    [ text |-> "", raised |-> FALSE, caught |-> FALSE, exc |-> FALSE, ret |-> {},
      path |-> "none", normalized |-> "", multi_word_terms |-> {}, single_words |-> {},
      dictionary_hits |-> {}, steps |-> << >> ]

NoKeywords ==
    [ resume_keywords |-> {}, job_keywords |-> {}, shared |-> << >>, missing |-> << >>,
      shared_keywords |-> << >>, missing_keywords |-> << >> ]

NoResponse == [ status |-> 0, order |-> "forward", match_percentage |-> 0 ] @@ NoKeywords

NoEarlier == [ call |-> NoCall, since |-> 0 ]

NoAdvice ==
    [ raised |-> FALSE, missing_keywords |-> << >>, shared_keywords |-> << >>,
      llm |-> [ raises |-> FALSE, response |-> "" ], path |-> "none",
      value |-> Parsed([ type |-> "none", keys |-> {}, str |-> "" ]) ]

Requests == 1..MaxRequests

NoRequest ==
    [ pc |-> "idle", resume_text |-> "", job_text |-> "", encode_ok |-> TRUE,
      resume_keywords |-> {}, job_keywords |-> {}, resp |-> NoResponse ]

\* InterviewService.__init__ (lines 67-74); started: startup has run
InterviewService == [ started |-> FALSE, client |-> FALSE ]

NoData == [ kind |-> "none", items |-> << >> ]

NoLlm == [ raises |-> FALSE, response |-> "", error |-> "" ]

\* a connection that is not yet accepted.  current_question, answer,
\* question, full_response: the locals of the handler and of
\* evaluate_answer_stream; chunks, raises, error: what the stream of the
\* language model still does; data: the last message received; llm: the
\* last call for a follow-up question; sent: the messages sent since the
\* last message was received
NoConnection ==
    [ pc |-> "connecting", current_question |-> Null, data |-> NoData, received |-> 0,
      answer |-> Null, question |-> Null, chunks |-> << >>, raises |-> FALSE, error |-> "",
      full_response |-> "", llm |-> NoLlm, sent |-> << >> ]

\* one more call was made since the remembered one (counted up to MaxSince)
Tick(e) ==
    IF e.call = NoCall \/ e.since >= MaxSince THEN e ELSE [ e EXCEPT !.since = @ + 1 ]

Init ==
    /\ state = AppStateDefaults
    /\ nltk_data = {}
    /\ phase = "import"
    /\ call = NoCall
    /\ resp = NoResponse
    /\ earlier = NoEarlier
    /\ requests = [ r \in Requests |-> NoRequest ]
    /\ advice = [ service |-> FALSE, client |-> FALSE, out |-> NoAdvice ]
    /\ interview_service = InterviewService
    /\ websocket = NoConnection

\* no call is running and no response is being sent
Idle == call = NoCall /\ resp = NoResponse

\* lifespan, up to the yield (lines 46-60).  initialize_nltk downloads the
\* NLTK packages, each download may fail (lines 161-166): nltk_data' is what
\* can be loaded afterwards.  load_model raises RuntimeError when the
\* embedding model cannot be loaded, and the service does not start.
\* Then the AdviceService is made and initialize_model sets its client, or
\* leaves it None when Ollama cannot be reached (ollama).
lifespan ==
    /\ phase = "import"
    /\ Idle
    /\ \E data \in SUBSET NltkPackages, loaded \in BOOLEAN, ollama \in BOOLEAN :
          /\ nltk_data' = data
          /\ state' = [ initialize_nltk(initialize_skill_sets(state), data)
                          EXCEPT !.model = loaded ]
          /\ phase' = IF loaded THEN "serving" ELSE "failed"
          /\ advice' = IF loaded THEN [ advice EXCEPT !.service = TRUE, !.client = ollama ]
                        ELSE advice
    /\ UNCHANGED << call, resp, earlier, requests, interview_service, websocket >>

\* a call of extract_skills_and_keywords(text), from the importing module
\* before or after startup
ExtractCall ==
    /\ phase # "failed"
    /\ Idle
    /\ \E text \in Texts :
          \E c \in { extract_skills_and_keywords(text, state, nltk_data) } :
              /\ call' = c
              /\ state' = ExtractEffect(state, c)
    /\ earlier' = Tick(earlier)
    /\ UNCHANGED << nltk_data, phase, resp, requests, advice, interview_service, websocket >>

\* lines 391-417 for two extraction calls
SimilarityResponse(resume_call, job_call, order) ==
    IF resume_call.raised \/ job_call.raised THEN [ NoResponse EXCEPT !.status = 500 ]
    ELSE [ order |-> order ] @@ Respond(Reconcile(resume_call.ret, job_call.ret, order))

\* lines 394-423 after the two extraction calls; st: the AppState after them
Answer(resume_call, job_call, order, st) ==
    The({ [ resp |-> r, state |-> SimilarityEffect(st, r) ] :
          r \in { SimilarityResponse(resume_call, job_call, order) } })

\* lines 391-423 on the stripped texts: the response and the AppState the
\* handler leaves
Handle(resume_text, job_text, order, st, data) ==
    The({ The({ The({ Answer(resume_call, job_call, order, ExtractEffect(st1, job_call)) :
                      job_call \in { extract_skills_and_keywords(job_text, st1, data) } }) :
                st1 \in { ExtractEffect(st, resume_call) } }) :
          resume_call \in { extract_skills_and_keywords(resume_text, st, data) } })

\* POST /similarity (lines 371-423); the handler has no await and runs to
\* its response in one step of the event loop.  encode_ok: the embedding
\* and the response validation succeed; otherwise the handler answers 500
\* and extracts nothing.
calculate_similarity ==
    /\ phase = "serving"
    /\ Idle
    /\ \E resume_in \in RequestTexts :
       \E resume_call \in { extract_skills_and_keywords(strip(resume_in), state, nltk_data) } :
       \E st1 \in { ExtractEffect(state, resume_call) } :
       \E job_in \in RequestTexts :
       \E job_call \in { extract_skills_and_keywords(strip(job_in), st1, nltk_data) } :
       \E encode_ok \in BOOLEAN, order \in IterationOrders :
          IF ~state.model
          THEN resp' = [ NoResponse EXCEPT !.status = 503 ] /\ state' = state
          ELSE IF ~encode_ok
          THEN resp' = [ NoResponse EXCEPT !.status = 500 ] /\ state' = state
          ELSE \E h \in { Answer(resume_call, job_call, order, ExtractEffect(st1, job_call)) } :
                  resp' = h.resp /\ state' = h.state
    /\ earlier' = Tick(earlier)
    /\ UNCHANGED << nltk_data, phase, call, requests, advice, interview_service, websocket >>

\* the caller has its return value, the client its response
Return ==
    /\ ~Idle
    /\ call' = NoCall
    /\ resp' = NoResponse
    /\ UNCHANGED << state, nltk_data, phase, earlier, requests, advice, interview_service, websocket >>

Next == lifespan \/ ExtractCall \/ calculate_similarity \/ Return

Spec == Init /\ [][Next]_vars

(***************************************************************************)
(* Repeated calls: after startup an observer remembers one call of         *)
(* extract_skills_and_keywords and compares later calls on the same text,  *)
(* with other calls and /similarity requests in between.                   *)
(***************************************************************************)
RepeatCall ==
    /\ phase = "serving"
    /\ Idle
    /\ \E text \in RepeatTexts, remember \in BOOLEAN :
          \E c \in { extract_skills_and_keywords(text, state, nltk_data) } :
              /\ call' = c
              /\ state' = ExtractEffect(state, c)
              /\ earlier' = IF remember /\ earlier.call = NoCall
                            THEN [ call |-> c, since |-> 0 ]
                            ELSE Tick(earlier)
    /\ UNCHANGED << nltk_data, phase, resp, requests, advice, interview_service, websocket >>

NextRepeat == lifespan \/ RepeatCall \/ calculate_similarity \/ Return

SpecRepeat == Init /\ [][NextRepeat]_vars

(***************************************************************************)
(* Several /similarity requests at a time.  calculate_similarity is a      *)
(* coroutine without await, which the event loop runs from its first       *)
(* statement to its response; the steps below are the statements of the    *)
(* handler, and their interleavings are those of a server that runs the    *)
(* handlers of different requests in threads, the event loop's             *)
(* request-by-request order among them.                                    *)
(***************************************************************************)
\* lines 375-388: the model test, strip and the embedding
Receive(r) ==
    /\ phase = "serving"
    /\ requests[r].pc = "idle"
    /\ \E request \in ConcurrentBodies, encode_ok \in BOOLEAN :
          requests' = [ requests EXCEPT ![r] =
              IF ~state.model
              THEN [ NoRequest EXCEPT !.pc = "done", !.resp.status = 503 ]
              ELSE [ NoRequest EXCEPT
                        !.pc = IF encode_ok THEN "extract_resume" ELSE "done",
                        !.resume_text = strip(request.resume_text),
                        !.job_text = strip(request.job_description),
                        !.encode_ok = encode_ok,
                        !.resp.status = IF encode_ok THEN 0 ELSE 500 ] ]
    /\ UNCHANGED << state, nltk_data, phase, call, resp, earlier, advice, interview_service, websocket >>

\* line 391
ExtractResume(r) ==
    /\ requests[r].pc = "extract_resume"
    /\ \E c \in { extract_skills_and_keywords(requests[r].resume_text, state, nltk_data) } :
          /\ requests' = [ requests EXCEPT ![r] =
                IF c.raised THEN [ @ EXCEPT !.pc = "done", !.resp.status = 500 ]
                ELSE [ @ EXCEPT !.pc = "extract_job", !.resume_keywords = c.ret ] ]
          /\ state' = ExtractEffect(state, c)
    /\ UNCHANGED << nltk_data, phase, call, resp, earlier, advice, interview_service, websocket >>

\* line 392
ExtractJob(r) ==
    /\ requests[r].pc = "extract_job"
    /\ \E c \in { extract_skills_and_keywords(requests[r].job_text, state, nltk_data) } :
          /\ requests' = [ requests EXCEPT ![r] =
                IF c.raised THEN [ @ EXCEPT !.pc = "done", !.resp.status = 500 ]
                ELSE [ @ EXCEPT !.pc = "reconcile", !.job_keywords = c.ret ] ]
          /\ state' = ExtractEffect(state, c)
    /\ UNCHANGED << nltk_data, phase, call, resp, earlier, advice, interview_service, websocket >>

\* lines 394-423
ReconcileRequest(r) ==
    /\ requests[r].pc = "reconcile"
    /\ \E order \in IterationOrders :
          \E rsp \in { [ order |-> order ]
                       @@ Respond(Reconcile(requests[r].resume_keywords,
                                            requests[r].job_keywords, order)) } :
              /\ requests' = [ requests EXCEPT ![r] = [ @ EXCEPT !.pc = "done", !.resp = rsp ] ]
              /\ state' = SimilarityEffect(state, rsp)
    /\ UNCHANGED << nltk_data, phase, call, resp, earlier, advice, interview_service, websocket >>

\* the response is sent and the handler's frame is gone
Send(r) ==
    /\ requests[r].pc = "done"
    /\ requests' = [ requests EXCEPT ![r] = NoRequest ]
    /\ UNCHANGED << state, nltk_data, phase, call, resp, earlier, advice, interview_service, websocket >>

NextConcurrent ==
    \/ lifespan
    \/ \E r \in Requests : Receive(r)
    \/ \E r \in Requests : ExtractResume(r)
    \/ \E r \in Requests : ExtractJob(r)
    \/ \E r \in Requests : ReconcileRequest(r)
    \/ \E r \in Requests : Send(r)

SpecConcurrent == Init /\ [][NextConcurrent]_vars

(***************************************************************************)
(* The reconciliation (lines 395-404) as a function of two keyword sets:   *)
(* the sets are drawn in the initial state and ReconcileStep applies it.   *)
(***************************************************************************)
InitReconcile ==
    /\ state = [ initialize_nltk(initialize_skill_sets(AppStateDefaults), NltkPackages)
                   EXCEPT !.model = TRUE ]
    /\ nltk_data = NltkPackages
    /\ phase = "serving"
    /\ call = NoCall
    /\ earlier = NoEarlier
    /\ requests = [ r \in Requests |-> NoRequest ]
    /\ advice = [ service |-> FALSE, client |-> FALSE, out |-> NoAdvice ]
    /\ interview_service = InterviewService
    /\ websocket = NoConnection
    /\ \E a \in ResumeSets, b \in JobSets, order \in IterationOrders :
          resp = [ NoResponse EXCEPT !.resume_keywords = a, !.job_keywords = b,
                                     !.order = order ]

ReconcileStep ==
    /\ resp.status = 0
    /\ resp' = [ order |-> resp.order ]
               @@ Respond(Reconcile(resp.resume_keywords, resp.job_keywords, resp.order))
    /\ UNCHANGED << state, nltk_data, phase, call, earlier, requests, advice, interview_service, websocket >>

NextReconcile == ReconcileStep

SpecReconcile == InitReconcile /\ [][NextReconcile]_vars

(***************************************************************************)
(* Advice requests                                                         *)
(***************************************************************************)
\* a call of generate_advice, as the handler of /advice makes it (main.py,
\* line 436)
GenerateAdvice ==
    /\ phase = "serving"
    /\ advice.service
    /\ advice.out = NoAdvice
    /\ \E missing_keywords \in AdviceKeywords, shared_keywords \in AdviceKeywords,
          llm \in LlmOutcomes :
          advice' = [ advice EXCEPT !.out =
                        generate_advice(advice.client, missing_keywords, shared_keywords, llm) ]
    /\ UNCHANGED << state, nltk_data, phase, call, resp, earlier, requests, interview_service, websocket >>

\* the caller has the advice
ReturnAdvice ==
    /\ advice.out # NoAdvice
    /\ advice' = [ advice EXCEPT !.out = NoAdvice ]
    /\ UNCHANGED << state, nltk_data, phase, call, resp, earlier, requests, interview_service, websocket >>

NextAdvice == lifespan \/ GenerateAdvice \/ ReturnAdvice

SpecAdvice == Init /\ [][NextAdvice]_vars

(***************************************************************************)
(* Other configurations of the dictionaries: the sets that startup loads,  *)
(* with entries added to them, so that an entry can be in a skill          *)
(* dictionary and in the filler or stop words at once.                     *)
(***************************************************************************)
InitDictionaries ==
    /\ \E t \in SUBSET ExtraSkills, g \in SUBSET ExtraFiller, w \in SUBSET ExtraStopWords,
          data \in { {}, NltkPackages } :
          /\ nltk_data = data
          /\ state = [ StartupState(data) EXCEPT
                         !.tech_skills   = @ \cup t,
                         !.generic_words = @ \cup g,
                         !.stop_words    = Some(@[1] \cup w) ]
    /\ phase = "serving"
    /\ call = NoCall
    /\ resp = NoResponse
    /\ earlier = NoEarlier
    /\ requests = [ r \in Requests |-> NoRequest ]
    /\ advice = [ service |-> FALSE, client |-> FALSE, out |-> NoAdvice ]
    /\ interview_service = InterviewService
    /\ websocket = NoConnection

NextDictionaries == ExtractCall \/ Return

SpecDictionaries == InitDictionaries /\ [][NextDictionaries]_vars

(***************************************************************************)
(* The interview service: startup, and the handler of one connection to    *)
(* /ws/interview (interview_websocket, lines 304-377).  The handler takes  *)
(* one step for each message that it receives; an evaluation takes a step  *)
(* for the call of the language model and for each chunk of its stream.    *)
(* send_json hands the message to the connection and does not raise.       *)
(***************************************************************************)
\* startup (lines 274-276): initialize sets the client, or leaves it None
\* when Ollama cannot be reached
startup ==
    /\ ~interview_service.started
    /\ \E ollama \in BOOLEAN :
          interview_service' = [ started |-> TRUE, client |-> ollama ]
    /\ UNCHANGED << state, nltk_data, phase, call, resp, earlier, requests, advice, websocket >>

\* lines 307-310
accept ==
    /\ interview_service.started
    /\ websocket.pc = "connecting"
    /\ websocket' = [ websocket EXCEPT !.pc = "receive", !.current_question = Null ]
    /\ UNCHANGED << state, nltk_data, phase, call, resp, earlier, requests, advice, interview_service >>

\* the handler waits in receive_json (line 314)
Receiving == websocket.pc = "receive" /\ websocket.received < MaxMessages

\* receive_json has returned data; answer and question are assigned before
\* they are read
Received(data) ==
    [ websocket EXCEPT !.data = data, !.received = @ + 1, !.sent = << >>,
                       !.answer = Null, !.question = Null, !.llm = NoLlm ]

\* data.get("type") (line 315)
message_type(data) == get(data.items, "type", Null)

\* the client has gone: receive_json raises WebSocketDisconnect (lines 370-371)
OnDisconnect ==
    /\ websocket.pc = "receive"
    /\ websocket' = [ websocket EXCEPT !.pc = "disconnected" ]
    /\ UNCHANGED << state, nltk_data, phase, call, resp, earlier, requests, advice, interview_service >>

\* lines 317-328.  A category that cannot be hashed raises TypeError, and
\* the handler closes the connection (lines 372-377)
OnGetQuestion ==
    /\ Receiving
    /\ \E data \in Messages :
          /\ data.kind = "dict"
          /\ message_type(data) = Str("get_question")
          /\ \E category \in { get(data.items, "category", Null) } :
                IF KnownCategory(category).exc
                THEN websocket' = [ Received(data) EXCEPT !.pc = "closed" ]
                ELSE \E q \in get_random_question(category) :
                        websocket' = [ Received(data) EXCEPT
                                         !.current_question = Str(q.question),
                                         !.sent = << QuestionMessage(q) >> ]
    /\ UNCHANGED << state, nltk_data, phase, call, resp, earlier, requests, advice, interview_service >>

\* lines 330-350, up to the call of evaluate_answer_stream.  An answer that
\* is no str has no strip: AttributeError, and the handler closes the
\* connection (lines 372-377)
OnSubmitAnswer ==
    /\ Receiving
    /\ \E data \in Messages :
          /\ data.kind = "dict"
          /\ message_type(data) = Str("submit_answer")
          /\ \E answer \in { get(data.items, "answer", Str("")) },
                question \in { Or(get(data.items, "question", Null),
                                  websocket.current_question) } :
                websocket' =
                    IF answer.t # "str"
                    THEN [ Received(data) EXCEPT !.answer = answer, !.question = question,
                                                 !.pc = "closed" ]
                    ELSE IF strip(answer.s) = ""
                    THEN [ Received(data) EXCEPT !.answer = answer, !.question = question,
                             !.sent = << ErrorMessage("Please provide an answer") >> ]
                    ELSE IF ~Truthy(question)
                    THEN [ Received(data) EXCEPT !.answer = answer, !.question = question,
                             !.sent = << ErrorMessage("No question context available") >> ]
                    ELSE [ Received(data) EXCEPT !.answer = answer, !.question = question,
                             !.sent = << EvaluatingMessage >>, !.pc = "evaluate" ]
    /\ UNCHANGED << state, nltk_data, phase, call, resp, earlier, requests, advice, interview_service >>

\* evaluate_answer_stream, up to the stream (lines 109-149): without a
\* client the error message, else the call of the language model
Generate ==
    /\ websocket.pc = "evaluate"
    /\ IF ~interview_service.client
       THEN websocket' = [ websocket EXCEPT
                             !.sent = Append(@, ErrorMessage("AI service not available")),
                             !.pc = "receive" ]
       ELSE \E llm \in StreamOutcomes :
               websocket' = [ websocket EXCEPT !.chunks = llm.chunks, !.raises = llm.raises,
                                               !.error = llm.error, !.full_response = "",
                                               !.pc = "stream" ]
    /\ UNCHANGED << state, nltk_data, phase, call, resp, earlier, requests, advice, interview_service >>

\* one chunk of the stream (lines 150-162)
Chunk ==
    /\ websocket.pc = "stream"
    /\ websocket.chunks # << >>
    /\ \E chunk \in { Head(websocket.chunks) } :
          IF "response" \in DOMAIN chunk
          THEN \E full_response \in { websocket.full_response \o chunk.response } :
                  websocket' = [ websocket EXCEPT
                                   !.chunks = Tail(@), !.full_response = full_response,
                                   !.sent = Append(@, ProgressMessage(full_response)) ]
          ELSE websocket' = [ websocket EXCEPT !.chunks = Tail(@) ]
    /\ UNCHANGED << state, nltk_data, phase, call, resp, earlier, requests, advice, interview_service >>

\* the stream raises (lines 186-188) or ends (lines 165-184)
StreamEnd ==
    /\ websocket.pc = "stream"
    /\ websocket.chunks = << >>
    /\ websocket' =
          [ websocket EXCEPT
              !.sent = IF websocket.raises THEN Append(@, ErrorMessage(websocket.error))
                       ELSE @ \o ParseEvaluation(websocket.full_response, websocket.answer.s),
              !.raises = FALSE, !.error = "", !.pc = "receive" ]
    /\ UNCHANGED << state, nltk_data, phase, call, resp, earlier, requests, advice, interview_service >>

\* lines 357-365
OnGetFollowup ==
    /\ Receiving
    /\ \E data \in Messages :
          /\ data.kind = "dict"
          /\ message_type(data) = Str("get_followup")
          /\ \E answer \in { get(data.items, "answer", Str("")) },
                question \in { Or(get(data.items, "question", Null),
                                  websocket.current_question) } :
                IF Truthy(question) /\ Truthy(answer)
                THEN \E llm \in IF interview_service.client THEN FollowupOutcomes ELSE { NoLlm } :
                        websocket' =
                            [ Received(data) EXCEPT
                                !.answer = answer, !.question = question, !.llm = llm,
                                !.sent = generate_followup_stream(interview_service.client, llm) ]
                ELSE websocket' = [ Received(data) EXCEPT !.answer = answer,
                                                          !.question = question ]
    /\ UNCHANGED << state, nltk_data, phase, call, resp, earlier, requests, advice, interview_service >>

\* lines 367-368
OnPing ==
    /\ Receiving
    /\ \E data \in Messages :
          /\ data.kind = "dict"
          /\ message_type(data) = Str("ping")
          /\ websocket' = [ Received(data) EXCEPT !.sent = << PongMessage >> ]
    /\ UNCHANGED << state, nltk_data, phase, call, resp, earlier, requests, advice, interview_service >>

\* a dict with another type, or none, is ignored.  A JSON value that is no
\* dict has no get (AttributeError at line 315), a text that is no JSON
\* makes receive_json raise: the handler closes the connection (lines 372-377)
OnOther ==
    /\ Receiving
    /\ \E data \in Messages :
          \/ /\ data.kind = "dict"
             /\ message_type(data) \notin { Str("get_question"), Str("submit_answer"),
                                            Str("get_followup"), Str("ping") }
             /\ websocket' = Received(data)
          \/ /\ data.kind # "dict"
             /\ websocket' = [ Received(data) EXCEPT !.pc = "closed" ]
    /\ UNCHANGED << state, nltk_data, phase, call, resp, earlier, requests, advice, interview_service >>

NextInterview ==
    \/ startup \/ accept \/ OnDisconnect \/ OnGetQuestion \/ OnSubmitAnswer
    \/ Generate \/ Chunk \/ StreamEnd \/ OnGetFollowup \/ OnPing \/ OnOther

\* the language model answers or fails, and its stream ends (num_predict
\* bounds it): an evaluation that has started goes on
SpecInterview ==
    Init /\ [][NextInterview]_vars
         /\ WF_vars(Generate) /\ WF_vars(Chunk) /\ WF_vars(StreamEnd)

(***************************************************************************)
(* Properties                                                              *)
(***************************************************************************)
\* a call of extract_skills_and_keywords has returned
Called == call.path # "none"

\* a /similarity request was answered with keyword lists
Answered == resp.status = 200

ResumeKw == resp.resume_keywords

JobKw == resp.job_keywords

NoDuplicates(lst) == \A i, j \in 1..Len(lst) : lst[i] = lst[j] => i = j

\* C1: no exception leaves extract_skills_and_keywords, whatever the state
\* of the tokenizer, the lemmatizer and the stop words; a call in which an
\* exception reached the outer handler returns the empty set.
C1_ExtractNeverRaises ==
    /\ ~call.raised
    /\ call.caught => call.ret = {}

\* C1 witness: a call on a non-blank text in which an exception was raised
\* inside the try block and caught.
C1_Witness ==
    /\ Called
    /\ call.caught
    /\ strip(call.text) # ""
    /\ call.ret = {}

\* C2: after startup, the keywords of the example sentence include python,
\* aws and api and none of years, experience, building.
C2_ExampleKeywords ==
    (Called /\ phase = "serving" /\ call.text = ExampleText)
        => /\ { "python", "aws", "api" } \subseteq call.ret
           /\ call.ret \cap { "years", "experience", "building" } = {}

\* C3: the shared list holds only keywords of both sets, each once, and all
\* of them when there are at most MAX_SHARED_KEYWORDS.
C3_SharedSubset ==
    Answered =>
        /\ Range(resp.shared_keywords) \subseteq ResumeKw \cap JobKw
        /\ NoDuplicates(resp.shared_keywords)
        /\ Cardinality(ResumeKw \cap JobKw) <= 15
              => Range(resp.shared_keywords) = ResumeKw \cap JobKw

\* C3 witness: a reconciliation of two sets with more than 15 common
\* keywords, next to one keyword only the job has.
C3_Witness ==
    /\ Answered
    /\ Cardinality(ResumeKw \cap JobKw) > 15
    /\ Len(resp.shared_keywords) = 15
    /\ JobKw \ ResumeKw # {}

\* C4: every missing keyword is a job keyword that the resume lacks, and no
\* keyword is in both lists of one response.
C4_MissingSubset ==
    Answered =>
        /\ Range(resp.missing_keywords) \subseteq JobKw \ ResumeKw
        /\ Range(resp.missing_keywords) \cap Range(resp.shared_keywords) = {}

\* C4 witness: a response with shared and missing keywords, for a resume
\* that has keywords the job does not ask for.
C4_Witness ==
    /\ Answered
    /\ resp.shared_keywords # << >>
    /\ resp.missing_keywords # << >>
    /\ ResumeKw \ JobKw # {}

\* technical keywords first, each tier ascending by lower-cased keyword
Ranked(lst) ==
    \E tech \in { [ i \in 1..Len(lst) |-> is_technical_skill(lst[i]) ] },
       low  \in { [ i \in 1..Len(lst) |-> lower(lst[i]) ] } :
        \A i, j \in 1..Len(lst) :
            i < j => /\ tech[j] => tech[i]
                     /\ tech[i] = tech[j] => ~StrLess(low[j], low[i])

Before(lst, a, b) == \E i, j \in 1..Len(lst) : i < j /\ lst[i] = a /\ lst[j] = b

\* C5: in both lists the technical keywords precede the others and each
\* tier is in ascending order of the lower-cased keyword; the example sets
\* give shared = [python, sql] and docker before leadership.
C5_TierOrder ==
    Answered =>
        /\ Ranked(resp.shared_keywords)
        /\ Ranked(resp.missing_keywords)
        /\ (ResumeKw = ExampleResume /\ JobKw = ExampleJob)
              => /\ resp.shared_keywords = << "python", "sql" >>
                 /\ Before(resp.missing_keywords, "docker", "leadership")

\* C5 witness: the example sets were reconciled.
C5_Witness ==
    /\ Answered
    /\ ResumeKw = ExampleResume
    /\ JobKw = ExampleJob
    /\ Len(resp.missing_keywords) = 2

Min(a, b) == IF a <= b THEN a ELSE b

\* lst is the first n entries (or all) of a ranking of the set S: it has
\* Min(n, |S|) entries of S and no keyword left out ranks before a kept one
PrefixOfRanking(lst, S, n) ==
    /\ Len(lst) = Min(n, Cardinality(S))
    /\ Range(lst) \subseteq S
    /\ \A d \in S \ Range(lst) : \A k \in Range(lst) : ~KeyLess(sort_key(d), sort_key(k))

\* C6: the lists are the first 15 and 12 entries of the sorted intersection
\* and difference: the handler's sorted lists hold all keywords, the
\* returned lists are their prefixes, no dropped keyword ranks before a kept
\* one, and the lengths are min(15, n) and min(12, m).
C6_TruncateAfterSort ==
    Answered =>
        /\ Range(resp.shared) = ResumeKw \cap JobKw
        /\ Range(resp.missing) = JobKw \ ResumeKw
        /\ Ranked(resp.shared)
        /\ Ranked(resp.missing)
        /\ resp.shared_keywords = SubSeq(resp.shared, 1, Min(15, Len(resp.shared)))
        /\ resp.missing_keywords = SubSeq(resp.missing, 1, Min(12, Len(resp.missing)))
        /\ PrefixOfRanking(resp.shared_keywords, ResumeKw \cap JobKw, 15)
        /\ PrefixOfRanking(resp.missing_keywords, JobKw \ ResumeKw, 12)

\* C6 witness: more than 12 missing keywords; the 12 kept ones are of both
\* tiers.
C6_Witness ==
    /\ Answered
    /\ Cardinality(JobKw \ ResumeKw) > 12
    /\ Len(resp.missing_keywords) = 12
    /\ \E k \in Range(resp.missing_keywords) : is_technical_skill(k)
    /\ \E k \in Range(resp.missing_keywords) : ~is_technical_skill(k)

\* C7: no generic filler word is a keyword of any text, unless it is an
\* entry of the technical or business dictionary.
C7_FillerExcluded ==
    \A w \in GenericWords :
        w \in call.ret \cup ResumeKw \cup JobKw => w \in TechSkills \cup BusinessSkills

\* C7 witness: after startup a filler word with a technical suffix passed
\* tokenization and the call returned without it.
C7_Witness ==
    /\ Called
    /\ phase = "serving"
    /\ ~call.caught
    /\ \E w \in call.single_words \cap GenericWords :
          has_technical_pattern(w, TechSkills) /\ w \notin call.ret

\* letters, for the token shapes below
IsLetter(c) == c \in LowerSet \cup UpperSet

AllDigits(k) == k # "" /\ \A i \in 1..Len(k) : Char(k, i) \in DigitSet

\* digits only, currency-prefixed digits, salary abbreviation, digit range,
\* 4-digit year, or no alphabetic character at all
NumberLike(k) ==
    \/ AllDigits(k)
    \/ (Len(k) >= 2 /\ Char(k, 1) = "$" /\ AllDigits(SubSeq(k, 2, Len(k))))
    \/ (Len(k) >= 2 /\ Char(k, Len(k)) \in { "k", "K", "m", "M", "b", "B" }
                    /\ AllDigits(SubSeq(k, 1, Len(k) - 1)))
    \/ \E i \in 2..(Len(k) - 1) :
          Char(k, i) = "-" /\ AllDigits(SubSeq(k, 1, i - 1)) /\ AllDigits(SubSeq(k, i + 1, Len(k)))
    \/ ~\E i \in 1..Len(k) : IsLetter(Char(k, i))

\* C8: no keyword is number-like, and the numeric example text yields none
\* of its four tokens.
C8_NumericExcluded ==
    /\ \A k \in call.ret \cup ResumeKw \cup JobKw : ~NumberLike(k)
    /\ call.text = NumericText => call.ret \cap { "2023", "40k", "$500", "3-5" } = {}

\* C8 witness: after startup the numeric example text was normalized and
\* tokenized, and the call returned.
C8_Witness ==
    /\ Called
    /\ phase = "serving"
    /\ call.text = NumericText
    /\ call.normalized = "2023 40k 500 3-5"
    /\ call.steps # << >>
    /\ ~call.caught

Whitespace(text) == \A i \in 1..Len(text) : Char(text, i) \in { " ", "\t", "\n" }

\* C9: a call on an empty or whitespace-only text returns the empty set, no
\* exception is raised or caught, and no step of the extraction runs.
C9_BlankInput ==
    (Called /\ Whitespace(call.text))
        => /\ call.ret = {}
           /\ ~call.raised
           /\ ~call.caught
           /\ call.steps = << >>

\* C9 witness: a call on a non-empty text of whitespace only, before the
\* dictionaries and stop words are initialized.
C9_Witness ==
    /\ Called
    /\ call.text # ""
    /\ Whitespace(call.text)
    /\ phase = "import"

\* C10: every keyword of a returned set is non-empty and lowercase and has
\* at least MIN_KEYWORD_LENGTH + 1 = 4 characters unless it is an entry of
\* the technical or business dictionary.
C10_KeywordShape ==
    \A k \in call.ret :
        /\ k # ""
        /\ \A i \in 1..Len(k) : Char(k, i) \notin UpperSet
        /\ Len(k) >= 4 \/ k \in TechSkills \cup BusinessSkills

\* C14: the reconciliation has no error outcome, and for an empty job
\* keyword set (the resume set empty or not) the handler answers 200 with
\* empty shared and missing lists and a match percentage of 0.
C14_EmptyJobKeywords ==
    resp.status # 0 =>
        /\ resp.status = 200
        /\ JobKw = {} => /\ resp.shared_keywords = << >>
                         /\ resp.missing_keywords = << >>
                         /\ resp.match_percentage = 0

\* C14 witness: a resume with keywords was reconciled with a job without
\* keywords, and the response was built.
C14_Witness ==
    /\ Answered
    /\ JobKw = {}
    /\ ResumeKw # {}
    /\ resp.shared = << >>

\* the three dictionaries and the stop words of an AppState
StaticSets(st) == << st.tech_skills, st.business_skills, st.generic_words, st.stop_words >>

\* C13: once startup has run, no step (a call of
\* extract_skills_and_keywords with has_technical_pattern, a /similarity
\* request with is_technical_skill, a return) changes tech_skills,
\* business_skills, generic_words or stop_words.
C13_DictionariesStatic ==
    [][phase = "serving" => StaticSets(state') = StaticSets(state)]_vars

\* C13 witness: after startup a /similarity request was answered with shared
\* keywords, and the four sets are the ones startup loaded.
C13_Witness ==
    /\ phase = "serving"
    /\ Answered
    /\ resp.shared_keywords # << >>
    /\ StaticSets(state) =
          StaticSets(initialize_nltk(initialize_skill_sets(AppStateDefaults), nltk_data))

Alone(req) ==
    Handle(req.resume_text, req.job_text, "forward", StartupState(nltk_data), nltk_data).resp

UppercaseTokens(text) ==
    { tok \in Range(split(text)) : \A i \in 1..Len(tok) : Char(tok, i) \in UpperSet }

\* C16: after startup, an all-uppercase token of the text that is longer
\* than MIN_KEYWORD_LENGTH, is no Roman numeral and is no filler or stop
\* word is returned in lowercase, whatever the other pattern rules say.
C16_AcronymAccepted ==
    (Called /\ phase = "serving" /\ ~call.caught) =>
        \A tok \in UppercaseTokens(call.text) :
            ( /\ Len(tok) > MIN_KEYWORD_LENGTH
              /\ ~IsRomanNumeral(tok)
              /\ lower(tok) \notin state.generic_words \cup state.stop_words[1] )
                => lower(tok) \in call.ret

\* the characters the normalized text may consist of
NormalizedAlphabet == LowerSet \cup DigitSet \cup { " ", "+", "#", ".", "-" }

\* C18: the normalized text of a call consists of lowercase letters,
\* digits, single spaces and + # . - only, without a space at either end.
C18_NormalizedAlphabet ==
    (Called /\ call.path # "blank") =>
        /\ \A i \in 1..Len(call.normalized) : Char(call.normalized, i) \in NormalizedAlphabet
        /\ ~Contains(call.normalized, "  ")
        /\ ~startswith(call.normalized, " ")
        /\ ~endswith(call.normalized, " ")

RawWords(c, st) ==
    { w \in Range(findall(c.normalized)) :
        /\ Len(w) > MIN_KEYWORD_LENGTH
        /\ HasAlpha(w)
        /\ ~is_pure_number(w)
        /\ w \notin st.stop_words[1] }

Underscored(phrase) == replace(phrase, " ", "_")

C20_AdviceHasAllFields ==
    advice.out.path # "none" =>
        /\ ~advice.out.raised
        /\ advice.out.value.type = "dict"
        /\ required_fields \subseteq advice.out.value.keys

(***************************************************************************)
(* The protocol of /ws/interview                                           *)
(***************************************************************************)
\* the last message received is a dict of the given type
LastIs(type) ==
    websocket.data.kind = "dict" /\ message_type(websocket.data) = Str(type)

\* the answer of the last message, and the question that is available for
\* it: the one of the message, or else the current question
LastAnswer == get(websocket.data.items, "answer", Str(""))

LastQuestion == Or(get(websocket.data.items, "question", Null), websocket.current_question)

\* the last message is an accepted submit_answer: its answer is a text that
\* is not blank, and a question is available
Accepted ==
    /\ LastIs("submit_answer")
    /\ LastAnswer.t = "str" /\ strip(LastAnswer.s) # ""
    /\ Truthy(LastQuestion)

\* the types of the messages sent since the last message was received
SentTypes == [ i \in 1..Len(websocket.sent) |-> websocket.sent[i].type ]

TerminalTypes == { "evaluation_complete", "error" }

\* the evaluation of the last message is running
Evaluating == websocket.pc \in { "evaluate", "stream" }

\* 'evaluating', then only 'evaluation_progress', then at most one terminal
\* message, which is there exactly when the evaluation has ended
EvaluationSequence ==
    /\ SentTypes # << >>
    /\ SentTypes[1] = "evaluating"
    /\ \A i \in 2..Len(SentTypes) : SentTypes[i] \in { "evaluation_progress" } \cup TerminalTypes
    /\ \A i \in 1..(Len(SentTypes) - 1) : SentTypes[i] \notin TerminalTypes
    /\ ~Evaluating <=> SentTypes[Len(SentTypes)] \in TerminalTypes

\* C21: for an accepted submit_answer the server sends 'evaluating' first,
\* then any number of 'evaluation_progress', then one terminal message
\* ('evaluation_complete' or 'error') and nothing after it; the evaluation
\* that has started ends with the terminal message; and no
\* 'evaluation_progress' or 'evaluation_complete' is sent for a message
\* that has no 'evaluating' before it
C21_EvaluationProtocol ==
    /\ [](Accepted => EvaluationSequence)
    /\ []((\E i \in 1..Len(SentTypes) :
              SentTypes[i] \in { "evaluation_progress", "evaluation_complete" })
            => Accepted /\ SentTypes[1] = "evaluating")
    /\ [](Evaluating => Accepted)
    /\ (Evaluating ~> (~Evaluating /\ Accepted /\ EvaluationSequence))

\* an accepted answer was evaluated with two progress messages and an
\* evaluation that json.loads gave
C21_Witness ==
    /\ Accepted
    /\ SentTypes = << "evaluating", "evaluation_progress", "evaluation_progress",
                      "evaluation_complete" >>
    /\ websocket.sent[4].data.score = 0
    /\ websocket.pc = "receive"

\* data is a submit_answer whose answer is empty or only whitespace, or for
\* which there is no question: none in the message and none issued by
\* get_question on this connection
Rejected(data, current_question) ==
    /\ data.kind = "dict"
    /\ message_type(data) = Str("submit_answer")
    /\ \/ /\ get(data.items, "answer", Str("")).t = "str"
          /\ strip(get(data.items, "answer", Str("")).s) = ""
       \/ /\ ~Truthy(get(data.items, "question", Null))
          /\ current_question = Null

\* C22: a submit_answer whose answer is empty or only whitespace, or for
\* which no question is available, gets exactly one 'error' message, starts
\* no evaluation, leaves current_question unchanged and leaves the handler
\* waiting for the next message
C22_RejectedSubmit ==
    [][ ( /\ websocket'.received = websocket.received + 1
          /\ Rejected(websocket'.data, websocket.current_question) )
        => /\ Len(websocket'.sent) = 1
           /\ websocket'.sent[1].type = "error"
           /\ websocket'.pc = "receive"
           /\ websocket'.current_question = websocket.current_question ]_vars

\* the last message is a get_followup for which a question (its own, or
\* the current question) and an answer that is not empty are available
FollowupAsked ==
    LastIs("get_followup") /\ Truthy(LastQuestion) /\ Truthy(LastAnswer)

\* C23: such a get_followup is answered with exactly one message, a
\* 'followup' that carries a question, without a client, when the call of
\* the language model succeeds and when it raises; no 'error' is sent
C23_FollowupAnswered ==
    FollowupAsked =>
        /\ Len(websocket.sent) = 1
        /\ websocket.sent[1].type = "followup"
        /\ "question" \in DOMAIN websocket.sent[1]
        /\ \A i \in 1..Len(SentTypes) : SentTypes[i] # "error"

\* the call of the language model raised, and the follow-up question of the
\* except clause was sent
C23_Witness ==
    /\ FollowupAsked
    /\ interview_service.client
    /\ websocket.llm.raises
    /\ websocket.sent =
          << FollowupMessage("Can you elaborate on the specific impact of your actions?") >>

=============================================================================
